---- MODULE Spec2Model ----
(***************************************************************************)
(* A model of rscanner.Scanner (src/reverse_scanner.go): a buffered        *)
(* tokenizer that reads the records of an io.ReaderAt of known size from   *)
(* the last one to the first.                                              *)
(*                                                                         *)
(* The Scanner struct is the record bs.  One Scan call is a sequence of    *)
(* steps (pc): the loop head with the start of a loading step, one step    *)
(* per ReadAt call, the call of the split function, the compaction and     *)
(* the growth of the buffer.  The source is the byte sequence content and  *)
(* the reader r, which answers each ReadAt.                                *)
(***************************************************************************)
EXTENDS Integers, Sequences, FiniteSets, TLC

VARIABLES
    content,     \* the bytes of the source, readerSize = Len(content)
    r,           \* the io.ReaderAt: its kind and what is left of its budget of empty reads
    bs,          \* the Scanner struct
    pc,          \* where the Scan call in flight stands, "idle" between calls
    left,        \* local of the read loop: bytes of buf[0:start) filled so far
    off,         \* local of the read loop: offset of the next ReadAt
    emptyReads,  \* local of the read loop: reads that returned no byte
    hist,        \* one record per Scan call that returned: its result, Bytes() and Err()
    nreads,      \* number of ReadAt calls issued to the source so far
    numSplits,   \* the counter a custom split function of the tests closes over
    first,       \* the Scanner as the caller configured it, before its first Scan
    last,        \* the last ReadAt: the length and offset asked for, the answer, the limit of empty reads then,
                 \* the reads in a row, up to it, that returned no byte and no error
    zerosInStep, \* reads of the loading step in progress that returned no byte and no error
    ended,       \* the reads made, the read position and the error when Scan first answered false
    asked,       \* the last call of the split function: the window it was given, the capacity, its answer
    remaining,   \* rOffset when the last loading step began, before it was decreased
    pass         \* rOffset and bufSize when the pass of the Scan loop in progress began, and the
                 \* number of passes of the Scan call in progress, counted up to PassCap

vars == <<content, r, bs, pc, left, off, emptyReads, hist, nreads, numSplits, first, last, zerosInStep, ended,
         asked, remaining, pass>>

-----------------------------------------------------------------------------
(* Bounds of the model. *)

MaxLen == 4          \* longest source, in bytes
MaxShort == 2        \* longest source read through a misbehaving reader or split by a custom function
MaxCap == 3          \* largest capacity handed to Buffer
MaxTok == 3          \* largest value handed to MaxTokenSize
MaxEmpty == 1        \* largest value handed to MaxConsecutiveEmptyReads
MaxZeros == 2        \* empty reads a stuttering reader may return in all
PassCap == 40        \* passes of the loop of one Scan call that are counted
MaxFalse == 2        \* Scan calls answered false that the caller makes

-----------------------------------------------------------------------------
(* Program constants. *)

LF == 10                                  \* '\n'
CR == 13                                  \* '\r'
NUL == 0                                  \* the byte make([]byte, n) fills with
defaultBufSize == 4096
defaultMaxConsecutiveEmptyReads == 100
MaxScanTokenSize == 65536                 \* bufio.MaxScanTokenSize
MaxInt == 2147483647                      \* math.MaxInt of a 32-bit build

Letters == {97}                           \* 'a': the byte of a line
Bytes == {LF, CR} \cup Letters

Min(a, b) == IF a < b THEN a ELSE b
Max(a, b) == IF a > b THEN a ELSE b

(* Go slices: a nil slice and an empty slice differ (token != nil). *)
nilSlice == [isNil |-> TRUE, bytes |-> <<>>]
Slice(s) == [isNil |-> FALSE, bytes |-> s]

(* s[lo:hi] of Go, on a sequence indexed from 1. *)
Sub(s, lo, hi) == SubSeq(s, lo + 1, hi)

(* make([]byte, n) *)
make(n) == [i \in 1..n |-> NUL]

(* copy(dst[at:at+Len(src)], src) *)
copy(dst, at, src) ==
    [i \in 1..Len(dst) |-> IF i > at /\ i <= at + Len(src) THEN src[i - at] ELSE dst[i]]

-----------------------------------------------------------------------------
(* Errors. *)

nil == "nil"
ErrTooLong == "ErrTooLong"
ErrNegativeAdvance == "ErrNegativeAdvance"
ErrAdvanceTooFar == "ErrAdvanceTooFar"
ErrBadReadCount == "ErrBadReadCount"
ErrNoProgress == "io.ErrNoProgress"
EOF == "io.EOF"
ErrUnexpectedEOF == "io.ErrUnexpectedEOF"
splitError == "splitError"

-----------------------------------------------------------------------------
(* The split functions. *)

IsCutset(b) == b = CR \/ b = LF

RECURSIVE trimRight(_)
trimRight(s) ==
    IF Len(s) > 0 /\ IsCutset(s[Len(s)]) THEN trimRight(SubSeq(s, 1, Len(s) - 1)) ELSE s

RECURSIVE trimLeft(_)
trimLeft(s) ==
    IF Len(s) > 0 /\ IsCutset(s[1]) THEN trimLeft(Tail(s)) ELSE s

(* bytes.Trim(s, "\r\n"): nil when nothing is left. *)
Trim(s) ==
    LET t == trimLeft(trimRight(s))
    IN  IF Len(t) = 0 THEN nilSlice ELSE Slice(t)

(* bytes.LastIndexByte(data, c), -1 when c is not in data. *)
LastIndexByte(data, c) ==
    LET at == {i \in 1..Len(data) : data[i] = c}
    IN  IF at = {} THEN -1 ELSE (CHOOSE i \in at : \A j \in at : j <= i) - 1

SplitResult(advance, token, err) ==
    [advance |-> advance, token |-> token, err |-> err, panics |-> FALSE, counts |-> FALSE]

ScanLines(data) ==
    LET i == LastIndexByte(data, LF)
    IN  IF i >= 0
        THEN SplitResult(i, Trim(Sub(data, i, Len(data))), nil)
        ELSE SplitResult(0, nilSlice, nil)

(* errorSplit of the tests: the last byte of the window as the token. *)
lastByte(data) ==
    IF Len(data) = 0
    THEN [SplitResult(0, nilSlice, nil) EXCEPT !.panics = TRUE]
    ELSE [SplitResult(Len(data) - 1, Slice(Sub(data, Len(data) - 1, Len(data))), nil)
            EXCEPT !.counts = TRUE]

(* The split functions of the tests: okCount tokens of one byte, then the fault. *)
errorSplit(f, n, data) ==
    IF n >= f.okCount
    THEN CASE f.kind = "Error"    -> SplitResult(0, nilSlice, splitError)
           [] f.kind = "Negative" -> [lastByte(data) EXCEPT !.advance = -1, !.counts = FALSE]
           [] f.kind = "TooFar"   -> [lastByte(data) EXCEPT !.advance = Len(data) + 1, !.counts = FALSE]
    ELSE lastByte(data)

(* bs.split(data), n being the counter the closure holds. *)
CallSplit(f, n, data) ==
    CASE f.kind = "ScanLines" -> ScanLines(data)
      [] f.kind = "Nothing"   -> SplitResult(0, nilSlice, nil)
      [] OTHER                -> errorSplit(f, n, data)

DefaultSplit == [kind |-> "ScanLines", okCount |-> 0]
OkCounts == {1}
CustomSplits ==
    {[kind |-> "Nothing", okCount |-> 0]}
    \cup [kind : {"Error", "Negative", "TooFar"}, okCount : OkCounts]

-----------------------------------------------------------------------------
(* The Scanner. *)

NewScanner(readerSize) ==
    LET bufSize == IF readerSize < defaultBufSize THEN readerSize ELSE defaultBufSize
    IN  [ bufSize |-> bufSize,
          maxTokenSize |-> MaxScanTokenSize,
          split |-> DefaultSplit,
          start |-> bufSize,
          end |-> bufSize,
          rOffset |-> readerSize,
          maxConsecutiveEmptyReads |-> defaultMaxConsecutiveEmptyReads,
          token |-> nilSlice,
          buf |-> <<>>,
          err |-> nil,
          done |-> FALSE,
          scanCalled |-> FALSE ]

(* setErr, were an error of the source or of the split function recorded   *)
(* under a name of the scanner's own.                                       *)
setErrSubstitutes(s, err) ==
    IF s.err = nil
    THEN [s EXCEPT !.err = IF err \in {ErrTooLong, ErrNegativeAdvance, ErrAdvanceTooFar,
                                        ErrBadReadCount, ErrNoProgress}
                           THEN err ELSE ErrBadReadCount]
    ELSE s

setErr(s, err) == IF s.err = nil THEN [s EXCEPT !.err = err] ELSE s

decreaseOffset(s, n) ==
    [s EXCEPT !.rOffset = IF s.rOffset - n < 0 THEN 0 ELSE s.rOffset - n]

(* The setters; panics is TRUE when the call panics, and s is then unchanged. *)
Buffer(s, cap) ==
    IF s.scanCalled
    THEN [s |-> s, panics |-> TRUE]
    ELSE [s |-> [s EXCEPT !.buf = make(cap), !.bufSize = cap, !.start = cap, !.end = cap],
          panics |-> FALSE]

MaxTokenSize(s, max) ==
    IF s.scanCalled
    THEN [s |-> s, panics |-> TRUE]
    ELSE [s |-> [s EXCEPT !.maxTokenSize = max], panics |-> FALSE]

Split(s, split) ==
    IF s.scanCalled
    THEN [s |-> s, panics |-> TRUE]
    ELSE [s |-> [s EXCEPT !.split = split], panics |-> FALSE]

MaxConsecutiveEmptyReads(s, v) ==
    [s |-> [s EXCEPT !.maxConsecutiveEmptyReads = v], panics |-> FALSE]

-----------------------------------------------------------------------------
(* The readers. *)

Response(n, err, data) == [n |-> n, err |-> err, data |-> data]

(* strings.Reader.ReadAt(p, off), Len(p) = plen, over the bytes src. *)
StringsReaderAt(src, plen, o) ==
    IF o >= Len(src)
    THEN Response(0, EOF, <<>>)
    ELSE LET n == Min(plen, Len(src) - o)
         IN  Response(n, IF n < plen THEN EOF ELSE nil, Sub(src, o, o + n))

(* slowReaderAt{max, strings.NewReader(src)}.ReadAt(p, off) *)
slowReaderAt(max, src, plen, o) ==
    StringsReaderAt(src, IF plen > max THEN max ELSE plen, o)

(* The answers of a reader that breaks the contract of ReadAt: an impossible *)
(* count (negative, or one more than asked), with and without an error; an   *)
(* error with no byte; the last byte of a request together with io.EOF.      *)
Faults(src, plen, o) ==
    {Response(n, e, <<>>) : n \in {-1, plen + 1}, e \in {nil, EOF}}
    \cup {Response(0, ErrUnexpectedEOF, <<>>)}
    \cup {Response(1, EOF, Sub(src, o, o + 1)) : x \in {y \in {1} : o < Len(src)}}

(* What the reader rd may answer to ReadAt(p, off), Len(p) = plen. *)
ReadAt(rd, src, plen, o) ==
    CASE rd.kind = "full"    -> {StringsReaderAt(src, plen, o)}
      [] rd.kind = "slow"    -> {slowReaderAt(1, src, plen, o)}
      [] rd.kind = "zeros"   -> {Response(0, nil, <<>>)}
      [] rd.kind = "large"   -> {Response(plen + 1, nil, <<>>)}
      [] rd.kind = "stutter" -> {slowReaderAt(1, src, plen, o)}
                                \cup {Response(0, nil, <<>>) : x \in {y \in {1} : rd.zeros > 0}}
      [] rd.kind = "faulty"  -> {slowReaderAt(1, src, plen, o)} \cup Faults(src, plen, o)

(* The reader after it gave the answer resp. *)
AfterRead(rd, resp) ==
    IF rd.kind = "stutter" /\ resp.n = 0 /\ resp.err = nil
    THEN [rd EXCEPT !.zeros = @ - 1]
    ELSE rd

WellBehaved == {"full", "slow"}
ReaderKinds == WellBehaved \cup {"zeros", "large", "stutter", "faulty"}

-----------------------------------------------------------------------------
(* Scan, step by step.  m is the scanner with the locals of the call in     *)
(* flight: [bs, pc, left, off, emptyReads, hist, nreads, numSplits].        *)

(* return ok: the caller sees the result, Bytes() and Err(). *)
Return(m, ok) ==
    [m EXCEPT !.pc = "idle",
              !.hist = Append(@, [ok |-> ok, token |-> m.bs.token, err |-> m.bs.err])]

(* A slice expression s[lo:hi] on a slice of capacity cap does not panic. *)
InBounds(lo, hi, cap) == 0 <= lo /\ lo <= hi /\ hi <= cap

Panic(m) == [m EXCEPT !.pc = "panic"]

(* Entry of Scan, were it to look at done only, not at the error. *)
ScanEnterIgnoresErr(m) ==
    IF m.bs.done
    THEN Return([m EXCEPT !.bs.token = nilSlice,
                          !.bs.start = m.bs.bufSize,
                          !.bs.end = m.bs.bufSize], FALSE)
    ELSE [m EXCEPT !.bs.scanCalled = TRUE, !.pc = "loop"]

(* Entry of Scan. *)
ScanEnter(m) ==
    IF m.bs.done \/ m.bs.err # nil
    THEN Return([m EXCEPT !.bs.token = nilSlice,
                          !.bs.start = m.bs.bufSize,
                          !.bs.end = m.bs.bufSize], FALSE)
    ELSE [m EXCEPT !.bs.scanCalled = TRUE, !.pc = "loop"]

(* Head of the loop: a loading step starts when there is space before start. *)
LoopHead(m) ==
    IF m.bs.start > 0
    THEN LET s1 == decreaseOffset(m.bs, m.bs.start)
             s2 == IF Len(s1.buf) = 0 THEN [s1 EXCEPT !.buf = make(s1.bufSize)] ELSE s1
         IN  [m EXCEPT !.bs = s2, !.off = s2.rOffset, !.left = 0, !.emptyReads = 0,
                       !.pc = "read"]
    ELSE [m EXCEPT !.pc = "split"]

(* The count n of a ReadAt is one the read loop refuses. *)
badReadCount(s, n) == n < 0 \/ n > s.start

(* The read loop, were it to leave the offset of the next read where it is. *)
readAdvanceSameOffset(m, n) ==
    [m EXCEPT !.left = @ + n, !.emptyReads = IF n = 0 THEN @ + 1 ELSE @]

(* The read loop, were it to count every read as an empty one. *)
readAdvanceCountsEveryRead(m, n) ==
    [m EXCEPT !.left = @ + n, !.off = @ + n, !.emptyReads = @ + 1]

(* The read loop takes the n bytes of a ReadAt and tracks the empty reads. *)
readAdvance(m, n) ==
    [m EXCEPT !.left = @ + n, !.off = @ + n, !.emptyReads = IF n = 0 THEN @ + 1 ELSE @]

(* One pass of the read loop: ReadAt(buf[left:start], off) answered resp. *)
ReadStep(m, resp) ==
    LET s == [m.bs EXCEPT !.buf = copy(@, m.left, resp.data)]
        m1 == [m EXCEPT !.bs = s, !.nreads = @ + 1]
        m2 == readAdvance(m1, resp.n)
    IN  IF ~InBounds(m.left, s.start, Len(s.buf)) THEN Panic(m)
        ELSE IF badReadCount(s, resp.n)
        THEN Return([m1 EXCEPT !.bs = setErr(s, ErrBadReadCount)], FALSE)
        ELSE IF resp.err # nil
        THEN Return([m1 EXCEPT !.bs = setErr(s, resp.err)], FALSE)
        ELSE IF m2.emptyReads > s.maxConsecutiveEmptyReads
        THEN Return([m2 EXCEPT !.bs = setErr(s, ErrNoProgress)], FALSE)
        ELSE IF m2.left < s.start
        THEN m2
        ELSE [m2 EXCEPT !.bs.start = 0, !.pc = "split"]

(* The source is read up to its start, were what is left of the window      *)
(* yielded as a last token also when nothing is left.                       *)
sourceExhaustedYieldsEmpty(m, s) ==
    Return([m EXCEPT !.bs = [s EXCEPT !.token = Trim(Sub(s.buf, s.start, s.end)),
                                      !.done = TRUE]], TRUE)

(* The source is read up to its start and the split function asked for more: *)
(* what is left of the window is the last token.                             *)
sourceExhausted(m, s) ==
    IF s.start < s.end
    THEN Return([m EXCEPT !.bs = [s EXCEPT !.token = Trim(Sub(s.buf, s.start, s.end)),
                                           !.done = TRUE]], TRUE)
    ELSE Return([m EXCEPT !.bs = [s EXCEPT !.token = nilSlice, !.done = TRUE]], FALSE)

(* The call of the split function, were the window moved by the advance    *)
(* before the advance is checked.                                           *)
SplitStepMovesFirst(m) ==
    LET s == m.bs
        res == CallSplit(s.split, m.numSplits, Sub(s.buf, s.start, s.end))
        m1 == [m EXCEPT !.numSplits = IF res.counts THEN @ + 1 ELSE @]
        st == [s EXCEPT !.token = res.token, !.end = s.start + res.advance]
    IN  IF ~InBounds(s.start, s.end, Len(s.buf)) \/ res.panics THEN Panic(m)
        ELSE IF res.err # nil
        THEN Return([m1 EXCEPT !.bs = setErr(s, res.err)], FALSE)
        ELSE IF res.advance < 0
        THEN Return([m1 EXCEPT !.bs = setErr(st, ErrNegativeAdvance)], FALSE)
        ELSE IF res.advance > s.end - s.start
        THEN Return([m1 EXCEPT !.bs = setErr(st, ErrAdvanceTooFar)], FALSE)
        ELSE IF res.advance > 0 \/ ~res.token.isNil
        THEN Return([m1 EXCEPT !.bs = st], TRUE)
        ELSE IF s.rOffset = 0
        THEN sourceExhausted(m1, [s EXCEPT !.token = res.token])
        ELSE [m1 EXCEPT !.bs = [s EXCEPT !.token = res.token], !.pc = "compact"]

(* The call of the split function on buf[start:end] and what Scan makes of it. *)
SplitStep(m) ==
    LET s == m.bs
        res == CallSplit(s.split, m.numSplits, Sub(s.buf, s.start, s.end))
        m1 == [m EXCEPT !.numSplits = IF res.counts THEN @ + 1 ELSE @]
        st == [s EXCEPT !.token = res.token]
    IN  IF ~InBounds(s.start, s.end, Len(s.buf)) \/ res.panics THEN Panic(m)
        ELSE IF res.err # nil
        THEN Return([m1 EXCEPT !.bs = setErr(s, res.err)], FALSE)
        ELSE IF res.advance < 0
        THEN Return([m1 EXCEPT !.bs = setErr(st, ErrNegativeAdvance)], FALSE)
        ELSE IF res.advance > s.end - s.start
        THEN Return([m1 EXCEPT !.bs = setErr(st, ErrAdvanceTooFar)], FALSE)
        ELSE IF res.advance > 0 \/ ~res.token.isNil
        THEN Return([m1 EXCEPT !.bs = [st EXCEPT !.end = s.start + res.advance]], TRUE)
        ELSE IF s.rOffset = 0
        THEN sourceExhausted(m1, st)
        ELSE [m1 EXCEPT !.bs = st, !.pc = "compact"]

(* The compaction, were the window moved by the space before its start     *)
(* added to the space after its end.                                        *)
CompactStepTooFar(m) ==
    LET s == m.bs
        d == s.bufSize - s.start
    IN  IF s.end < s.bufSize \div 2
        THEN [m EXCEPT !.bs.buf = copy(@, Min(s.start + d, Len(s.buf)), <<>>),
                       !.bs.start = s.start + d,
                       !.bs.end = s.end + d,
                       !.pc = "grow"]
        ELSE [m EXCEPT !.pc = "grow"]

(* The compaction, were it made wherever the window ends. *)
CompactStepAlways(m) ==
    LET s == m.bs
        d0 == s.bufSize - s.end
        d == IF s.rOffset < d0 THEN s.rOffset ELSE d0
    IN  IF ~InBounds(s.start + d, s.end + d, Len(s.buf)) THEN Panic(m)
        ELSE [m EXCEPT !.bs.buf = copy(@, s.start + d, Sub(s.buf, s.start, s.end)),
                       !.bs.start = s.start + d,
                       !.bs.end = s.end + d,
                       !.pc = "grow"]

(* More data is needed: first move the window to the right. *)
CompactStep(m) ==
    LET s == m.bs
        d0 == s.bufSize - s.end
        d == IF s.rOffset < d0 THEN s.rOffset ELSE d0
    IN  IF s.end < s.bufSize \div 2
        THEN IF ~InBounds(s.start + d, s.end + d, Len(s.buf)) THEN Panic(m)
             ELSE [m EXCEPT !.bs.buf = copy(@, s.start + d, Sub(s.buf, s.start, s.end)),
                            !.bs.start = s.start + d,
                            !.bs.end = s.end + d,
                            !.pc = "grow"]
        ELSE [m EXCEPT !.pc = "grow"]

(* The growth, were the new capacity twice the old one whatever            *)
(* maxTokenSize is.                                                         *)
GrowStepUncapped(m) ==
    LET s == m.bs
        n0 == s.bufSize * 2
        newSize == IF n0 = 0 THEN defaultBufSize ELSE n0
        newBuf == make(newSize)
    IN  IF s.start = 0
        THEN IF s.bufSize >= s.maxTokenSize \/ s.bufSize > MaxInt \div 2
             THEN Return([m EXCEPT !.bs = setErr(s, ErrTooLong)], FALSE)
             ELSE IF ~InBounds(newSize - (s.end - s.start), newSize, newSize) THEN Panic(m)
             ELSE [m EXCEPT !.bs.buf = copy(newBuf, newSize - (s.end - s.start),
                                             Sub(s.buf, s.start, s.end)),
                            !.bs.start = newSize - s.bufSize,
                            !.bs.end = newSize,
                            !.bs.bufSize = newSize,
                            !.pc = "loop"]
        ELSE [m EXCEPT !.pc = "loop"]

(* The growth, were it never refused. *)
GrowStepNeverRefuses(m) ==
    LET s == m.bs
        n0 == s.bufSize * 2
        n1 == IF n0 = 0 THEN defaultBufSize ELSE n0
        newSize == IF n1 > s.maxTokenSize THEN s.maxTokenSize ELSE n1
        newBuf == make(newSize)
        len == Min(s.end - s.start, newSize)
    IN  IF s.start = 0
        THEN [m EXCEPT !.bs.buf = copy(newBuf, newSize - len, Sub(s.buf, s.end - len, s.end)),
                       !.bs.start = Max(newSize - s.bufSize, 0),
                       !.bs.end = newSize,
                       !.bs.bufSize = newSize,
                       !.pc = "loop"]
        ELSE [m EXCEPT !.pc = "loop"]

(* More data is needed: second, with no space before start, a larger buffer. *)
GrowStep(m) ==
    LET s == m.bs
        n0 == s.bufSize * 2
        n1 == IF n0 = 0 THEN defaultBufSize ELSE n0
        newSize == IF n1 > s.maxTokenSize THEN s.maxTokenSize ELSE n1
        newBuf == make(newSize)
    IN  IF s.start = 0
        THEN IF s.bufSize >= s.maxTokenSize \/ s.bufSize > MaxInt \div 2
             THEN Return([m EXCEPT !.bs = setErr(s, ErrTooLong)], FALSE)
             ELSE IF ~InBounds(newSize - (s.end - s.start), newSize, newSize) THEN Panic(m)
             ELSE [m EXCEPT !.bs.buf = copy(newBuf, newSize - (s.end - s.start),
                                             Sub(s.buf, s.start, s.end)),
                            !.bs.start = newSize - s.bufSize,
                            !.bs.end = newSize,
                            !.bs.bufSize = newSize,
                            !.pc = "loop"]
        ELSE [m EXCEPT !.pc = "loop"]

-----------------------------------------------------------------------------
(* The state machine. *)

M == [bs |-> bs, pc |-> pc, left |-> left, off |-> off, emptyReads |-> emptyReads,
      hist |-> hist, nreads |-> nreads, numSplits |-> numSplits]

Set(m) ==
    /\ bs' = m.bs
    /\ pc' = m.pc
    /\ left' = m.left
    /\ off' = m.off
    /\ emptyReads' = m.emptyReads
    /\ hist' = m.hist
    /\ nreads' = m.nreads
    /\ numSplits' = m.numSplits
    /\ ended' = IF ~ended.set /\ m.pc = "idle" /\ m.hist # <<>> /\ ~m.hist[Len(m.hist)].ok
                THEN [set |-> TRUE, nreads |-> m.nreads, rOffset |-> m.bs.rOffset, err |-> m.bs.err]
                ELSE ended

RECURSIVE SeqsUpTo(_)
SeqsUpTo(n) ==
    IF n = 0 THEN {<<>>}
    ELSE LET shorter == SeqsUpTo(n - 1)
         IN  shorter \cup {Append(q, b) : q \in {x \in shorter : Len(x) = n - 1}, b \in Bytes}

(* Sources one byte longer than MaxLen, of letters and line feeds: they are  *)
(* read through the full reader into a caller's buffer one byte shorter     *)
(* than they are, or into the default one, so that a window that is not     *)
(* empty is compacted.                                                      *)
LongSources ==
    [1..(MaxLen + 1) -> Letters \cup {LF}]

Readers ==
    {[kind |-> k, zeros |-> IF k = "stutter" THEN MaxZeros ELSE 0] : k \in ReaderKinds}

(* sc := NewScanner(reader, int64(len(content))) *)
Init ==
    /\ content \in SeqsUpTo(MaxLen) \cup LongSources
    /\ r \in Readers
    /\ Len(content) > MaxLen => r.kind = "full"
    /\ r.kind \notin WellBehaved => Len(content) <= MaxShort
    /\ bs = NewScanner(Len(content))
    /\ pc = "idle"
    /\ left = 0
    /\ off = 0
    /\ emptyReads = 0
    /\ hist = <<>>
    /\ nreads = 0
    /\ numSplits = 0
    /\ first = bs
    /\ last = [plen |-> 0, n |-> 0, err |-> nil, limit |-> 0, off |-> 0, run |-> 0]
    /\ zerosInStep = 0
    /\ ended = [set |-> FALSE, nreads |-> 0, rOffset |-> 0, err |-> nil]
    /\ asked = [called |-> FALSE, start |-> 0, end |-> 0, rOffset |-> 0, data |-> <<>>,
                advance |-> 0, token |-> nilSlice, err |-> nil, bufSize |-> 0]
    /\ remaining = Len(content)
    /\ pass = [rOffset |-> Len(content), bufSize |-> bs.bufSize, n |-> 0]

(* A configuration call.  The caller configures before its first Scan, or   *)
(* between its first Scan and its second; a call that panics ends the run.  *)
(* A setter is explored where the reader can make its value matter: the     *)
(* token size with the well-behaved readers, the limit of empty reads with  *)
(* the readers that return empty reads, a custom split function with the    *)
(* slow reader of the tests over a short source.                            *)
Configure(res) ==
    /\ pc = "idle"
    /\ Len(hist) <= 1
    /\ bs' = res.s
    /\ pc' = IF res.panics THEN "panic" ELSE pc
    /\ first' = IF bs.scanCalled THEN first ELSE res.s
    /\ UNCHANGED <<content, r, left, off, emptyReads, hist, nreads, numSplits, last, zerosInStep, ended, asked, remaining, pass>>

CallBuffer ==
    \E cap \in IF Len(content) > MaxLen THEN {Len(content) - 1} ELSE 0..MaxCap :
        Configure(Buffer(bs, cap))

CallMaxTokenSize ==
    /\ r.kind \in WellBehaved
    /\ Len(content) <= MaxLen
    /\ \E max \in 1..MaxTok : Configure(MaxTokenSize(bs, max))

CallSplitSetter ==
    /\ r.kind = "slow"
    /\ Len(content) <= MaxShort
    /\ \E f \in CustomSplits : Configure(Split(bs, f))

CallMaxConsecutiveEmptyReads ==
    /\ r.kind \in {"zeros", "stutter"}
    /\ \E v \in 0..MaxEmpty : Configure(MaxConsecutiveEmptyReads(bs, v))

NumFalse(h) == Cardinality({i \in 1..Len(h) : ~h[i].ok})

(* The caller calls Scan. *)
CallScan ==
    /\ pc = "idle"
    /\ NumFalse(hist) < MaxFalse
    /\ Set(ScanEnter(M))
    /\ pass' = [pass EXCEPT !.n = 0]
    /\ UNCHANGED <<content, r, first, last, zerosInStep, asked, remaining>>

Loop ==
    /\ pc = "loop"
    /\ Set(LoopHead(M))
    /\ zerosInStep' = IF bs.start > 0 THEN 0 ELSE zerosInStep
    /\ remaining' = IF bs.start > 0 THEN bs.rOffset ELSE remaining
    /\ pass' = [rOffset |-> bs.rOffset, bufSize |-> bs.bufSize, n |-> Min(pass.n + 1, PassCap)]
    /\ UNCHANGED <<content, r, first, last, asked>>

Read ==
    /\ pc = "read"
    /\ \E resp \in ReadAt(r, content, bs.start - left, off) :
          /\ Set(ReadStep(M, resp))
          /\ r' = AfterRead(r, resp)
          /\ last' = [plen |-> bs.start - left, n |-> resp.n, err |-> resp.err,
                    limit |-> bs.maxConsecutiveEmptyReads, off |-> off,
                    run |-> IF resp.n = 0 /\ resp.err = nil THEN last.run + 1 ELSE 0]
          /\ zerosInStep' = IF resp.n = 0 /\ resp.err = nil THEN zerosInStep + 1 ELSE zerosInStep
    /\ UNCHANGED <<content, first, asked, remaining, pass>>

SplitCall ==
    /\ pc = "split"
    /\ Set(SplitStep(M))
    /\ asked' = IF InBounds(bs.start, bs.end, Len(bs.buf))
                THEN LET data == Sub(bs.buf, bs.start, bs.end)
                         res == CallSplit(bs.split, numSplits, data)
                     IN  IF res.panics THEN asked
                         ELSE [called |-> TRUE, start |-> bs.start, end |-> bs.end,
                               rOffset |-> bs.rOffset, data |-> data,
                               advance |-> res.advance, token |-> res.token, err |-> res.err,
                               bufSize |-> bs.bufSize]
                ELSE asked
    /\ UNCHANGED <<content, r, first, last, zerosInStep, remaining, pass>>

Compact ==
    /\ pc = "compact"
    /\ Set(CompactStep(M))
    /\ UNCHANGED <<content, r, first, last, zerosInStep, asked, remaining, pass>>

Grow ==
    /\ pc = "grow"
    /\ Set(GrowStep(M))
    /\ UNCHANGED <<content, r, first, last, zerosInStep, asked, remaining, pass>>

Next ==
    \/ CallBuffer
    \/ CallMaxTokenSize
    \/ CallSplitSetter
    \/ CallMaxConsecutiveEmptyReads
    \/ CallScan
    \/ Loop
    \/ Read
    \/ SplitCall
    \/ Compact
    \/ Grow

Spec == Init /\ [][Next]_vars

-----------------------------------------------------------------------------
(* The caller's loop as a function: the steps above, taken with a reader    *)
(* whose answers are determined, until Scan has answered false MaxFalse     *)
(* times.                                                                   *)

Machine(s) ==
    [bs |-> s, pc |-> "idle", left |-> 0, off |-> 0, emptyReads |-> 0,
     hist |-> <<>>, nreads |-> 0, numSplits |-> 0]

Step(m, rd, src) ==
    CASE m.pc = "idle"    -> ScanEnter(m)
      [] m.pc = "loop"    -> LoopHead(m)
      [] m.pc = "read"    -> ReadStep(m, CHOOSE resp \in ReadAt(rd, src, m.bs.start - m.left, m.off) : TRUE)
      [] m.pc = "split"   -> SplitStep(m)
      [] m.pc = "compact" -> CompactStep(m)
      [] m.pc = "grow"    -> GrowStep(m)

RECURSIVE Run(_, _, _)
Run(m, rd, src) ==
    IF m.pc = "panic" \/ (m.pc = "idle" /\ NumFalse(m.hist) >= MaxFalse)
    THEN m
    ELSE Run(Step(m, rd, src), rd, src)

(* The whole scan of the source by the scanner as configured, through the   *)
(* reader of the given kind.                                                *)
ScanAll(kind) == Run(Machine(first), [kind |-> kind, zeros |-> 0], content)

-----------------------------------------------------------------------------
(* Properties of the scanner. *)

(* Scan has answered false: the caller's loop is over. *)
Finished == pc = "idle" /\ NumFalse(hist) >= 1

(* The tokens the successful Scans of h yielded, in the order of the calls. *)
RECURSIVE Tokens(_)
Tokens(h) ==
    IF h = <<>> THEN <<>>
    ELSE IF Head(h).ok THEN <<Head(h).token.bytes>> \o Tokens(Tail(h))
    ELSE Tokens(Tail(h))

RECURSIVE Reverse(_)
Reverse(q) == IF q = <<>> THEN <<>> ELSE Append(Reverse(Tail(q)), Head(q))

(* bufio.ScanLines' dropCR *)
dropCR(line) ==
    IF Len(line) > 0 /\ line[Len(line)] = CR THEN SubSeq(line, 1, Len(line) - 1) ELSE line

(* The tokens of bufio.Scanner with bufio.ScanLines over src. *)
RECURSIVE ForwardLines(_)
ForwardLines(src) ==
    IF Len(src) = 0 THEN <<>>
    ELSE LET at == {i \in 1..Len(src) : src[i] = LF}
         IN  IF at = {} THEN <<dropCR(src)>>
             ELSE LET i == CHOOSE i \in at : \A j \in at : i <= j
                  IN  <<dropCR(SubSeq(src, 1, i - 1))>> \o ForwardLines(SubSeq(src, i + 1, Len(src)))

(* C1: with the default split function and a well-behaved source, the tokens *)
(* of the Scans until Scan answers false are the tokens of a forward line    *)
(* scanner over the same source, in reverse order.                           *)
C1_ReverseOfForward ==
    (Finished /\ bs.split = DefaultSplit /\ r.kind \in WellBehaved)
        => Tokens(hist) = Reverse(ForwardLines(content))

(* C2: the Scans through the reader that returns at most one byte per read *)
(* give the results, the tokens and the errors, in the same order, of the   *)
(* Scans of the same scanner over the same source through the reader that   *)
(* fills every request at once, up to the last Scan the caller makes.       *)
C2_SlowSameAsFull ==
    (pc = "idle" /\ r.kind = "slow" /\ NumFalse(hist) = MaxFalse)
        => hist = ScanAll("full").hist

(* C2: a scan through the slow reader is over, after tokens and a growth    *)
(* of the buffer, and it took more reads than the scan through the full one. *)
C2_Witness ==
    /\ pc = "idle"
    /\ NumFalse(hist) = MaxFalse
    /\ r.kind = "slow"
    /\ Len(Tokens(hist)) >= 2
    /\ bs.bufSize > first.bufSize
    /\ nreads > ScanAll("full").nreads

(* The lines of src: the bytes between its line feeds, first line first. *)
RECURSIVE SplitLF(_)
SplitLF(src) ==
    LET at == {i \in 1..Len(src) : src[i] = LF}
    IN  IF at = {} THEN <<src>>
        ELSE LET i == CHOOSE i \in at : \A j \in at : i <= j
             IN  <<SubSeq(src, 1, i - 1)>> \o SplitLF(SubSeq(src, i + 1, Len(src)))

(* Scan answered false once, after the successful Scans, and Err() is nil. *)
EndedClean ==
    /\ Finished
    /\ ~hist[Len(hist)].ok
    /\ hist[Len(hist)].err = nil
    /\ bs.err = nil

(* The scanner has the default split function and token size, the source is *)
(* well behaved.                                                            *)
DefaultLines ==
    /\ bs.split = DefaultSplit
    /\ first.maxTokenSize = MaxScanTokenSize
    /\ r.kind \in WellBehaved

(* n >= 1 non-empty lines free of CR and LF, separated by single line feeds. *)
PlainLines(src) ==
    /\ Len(src) >= 1
    /\ \A i \in 1..Len(src) : src[i] # CR
    /\ src[1] # LF
    /\ src[Len(src)] # LF
    /\ \A i \in 1..(Len(src) - 1) : ~(src[i] = LF /\ src[i + 1] = LF)

(* C3: over n >= 1 non-empty lines separated by single line feeds, with no  *)
(* line feed at either end, exactly n Scans succeed, they yield the lines   *)
(* from the last to the first, and the Scan after them answers false with   *)
(* Err() nil.                                                               *)
C3_LinesLastToFirst ==
    (Finished /\ DefaultLines /\ PlainLines(content))
        => (Tokens(hist) = Reverse(SplitLF(content)) /\ EndedClean)

(* Lines free of CR and LF, joined by CR LF: every CR is followed by a LF   *)
(* and every LF follows a CR.                                               *)
JoinedByCRLF(src) ==
    /\ Len(src) >= 1
    /\ \A i \in 1..Len(src) : src[i] = CR => (i < Len(src) /\ src[i + 1] = LF)
    /\ \A i \in 1..Len(src) : src[i] = LF => (i > 1 /\ src[i - 1] = CR)

DropCRs(lines) == [i \in 1..Len(lines) |-> dropCR(lines[i])]

(* C4: over lines joined by CR LF the Scans yield the lines from the last   *)
(* to the first, every token being its line without the line feed and the   *)
(* carriage return before it, no token holds a CR or a LF, and the Scan     *)
(* after them answers false with Err() nil.                                 *)
C4_CRLFLines ==
    (Finished /\ DefaultLines /\ JoinedByCRLF(content))
        => /\ Tokens(hist) = Reverse(DropCRs(SplitLF(content)))
           /\ \A i \in 1..Len(hist) : \A j \in 1..Len(hist[i].token.bytes) :
                  hist[i].token.bytes[j] \notin {CR, LF}
           /\ EndedClean

(* The buffer the scanner started with holds the whole source, as the       *)
(* buffer of NewScanner does for a source of at most defaultBufSize bytes.  *)
WholeSourceBuffered == first.bufSize = Len(content)

FirstLine(src) == Head(SplitLF(src))
LastLine(src) == SplitLF(src)[Len(SplitLF(src))]
Trimmed(lines) == [i \in 1..Len(lines) |-> trimLeft(trimRight(lines[i]))]

(* The lines the Scans yield: the lines of src from the last to the first,  *)
(* each without its leading and trailing CRs, an empty first line left out. *)
MirrorLines(src) ==
    IF FirstLine(src) = <<>>
    THEN Trimmed(Reverse(Tail(SplitLF(src))))
    ELSE Trimmed(Reverse(SplitLF(src)))

C6_OnlyLineFeeds ==
    (Finished /\ DefaultLines /\ Len(content) >= 1 /\ \A i \in 1..Len(content) : content[i] = LF)
        => (Tokens(hist) = [i \in 1..Len(content) |-> <<>>] /\ EndedClean)

(* C7: once Scan has answered false, every later Scan answers false at once, *)
(* without a read and without a change of the read position, no successful   *)
(* Scan follows, and Err() keeps the value it had: an error is never cleared *)
(* or replaced, and none appears after a clean end.                          *)
C7_TerminalAbsorbing ==
    /\ \A i \in 1..Len(hist) : \A j \in 1..(i - 1) : hist[i].ok => hist[j].ok
    /\ bs.err # nil => ended.set
    /\ ended.set =>
          /\ pc \in {"idle", "panic"}
          /\ nreads = ended.nreads
          /\ bs.rOffset = ended.rOffset
          /\ bs.err = ended.err
          /\ \A i \in 1..Len(hist) : ~hist[i].ok => hist[i].err = ended.err

(* C7: Scan answered false twice after a token, and an error is set. *)
C7_Witness ==
    /\ pc = "idle"
    /\ NumFalse(hist) = 2
    /\ Len(Tokens(hist)) >= 1
    /\ bs.err # nil
    /\ hist[Len(hist)].err = bs.err

(* C8: a read that reports a negative count, or a count larger than the     *)
(* slice it was given, makes Scan answer false with Err() ErrBadReadCount.  *)
C8_BadReadCount ==
    [][ (pc = "read" /\ nreads' = nreads + 1 /\ (last'.n < 0 \/ last'.n > last'.plen))
            => /\ pc' = "idle"
               /\ ~hist'[Len(hist')].ok
               /\ bs'.err = ErrBadReadCount ]_vars

(* The lines of src longer than max. *)
LongLines(src, max) == {i \in 1..Len(SplitLF(src)) : Len(SplitLF(src)[i]) > max}

(* The lines of src after its last line longer than max. *)
AfterLongLine(src, max) ==
    LET j == CHOOSE j \in LongLines(src, max) : \A k \in LongLines(src, max) : k <= j
    IN  SubSeq(SplitLF(src), j + 1, Len(SplitLF(src)))

NonEmpty(q) == SelectSeq(q, LAMBDA t : t # <<>>)

(* C9: when the source holds a line longer than maxTokenSize, the lines     *)
(* after it, shorter than maxTokenSize, are yielded by one successful Scan  *)
(* each, the Scan that reaches the long line answers false with ErrTooLong, *)
(* and no successful Scan yields a token longer than maxTokenSize.  Empty   *)
(* tokens are left out of the comparison, and the buffer the scanner starts *)
(* with is no larger than the source.                                       *)
C9_TooLongRecord ==
    (/\ Finished
     /\ bs.split = DefaultSplit
     /\ r.kind \in WellBehaved
     /\ first.bufSize <= Len(content)
     /\ \A i \in 1..Len(content) : content[i] # CR
     /\ LongLines(content, first.maxTokenSize) # {}
     /\ LET after == AfterLongLine(content, first.maxTokenSize)
        IN  \A k \in 1..Len(after) : Len(after[k]) < first.maxTokenSize)
        => /\ NonEmpty(Tokens(hist)) = NonEmpty(Reverse(AfterLongLine(content, first.maxTokenSize)))
           /\ bs.err = ErrTooLong
           /\ \A i \in 1..Len(hist) : Len(hist[i].token.bytes) <= first.maxTokenSize

(* C10: a source that only answers reads with no byte and no error makes    *)
(* Scan answer false with ErrNoProgress.  A read with no byte and no error  *)
(* ends the Scan with ErrNoProgress exactly when it takes the empty reads   *)
(* of the loading step above maxConsecutiveEmptyReads.  A source that       *)
(* stutters within that limit is scanned as the same source without the     *)
(* empty reads is.                                                          *)
C10_EmptyReads ==
    /\ (r.kind = "zeros" /\ Finished /\ nreads > 0)
          => (~hist[1].ok /\ hist[1].err = ErrNoProgress /\ bs.err = ErrNoProgress)
    /\ (r.kind = "stutter" /\ pc = "idle" /\ NumFalse(hist) = MaxFalse /\ bs.err # ErrNoProgress)
          => hist = ScanAll("slow").hist
    /\ pc = "read" => zerosInStep <= bs.maxConsecutiveEmptyReads
    /\ (nreads > 0 /\ last.n = 0 /\ last.err = nil /\ zerosInStep > last.limit)
          => (pc \in {"idle", "panic"} /\ bs.err = ErrNoProgress /\ ~hist[Len(hist)].ok)
    /\ bs.err = ErrNoProgress
          => (last.n = 0 /\ last.err = nil /\ zerosInStep = last.limit + 1)

(* C10: a source that stuttered, in all more often than the limit of one    *)
(* loading step allows, is scanned to its end with a token and Err() nil.   *)
C10_Witness ==
    /\ r.kind = "stutter"
    /\ pc = "idle"
    /\ NumFalse(hist) = MaxFalse
    /\ bs.err = nil
    /\ Len(Tokens(hist)) >= 1
    /\ first.maxConsecutiveEmptyReads = 1
    /\ bs.maxConsecutiveEmptyReads = 1
    /\ MaxZeros - r.zeros >= 2

(* C11: a call of a setter, Buffer, MaxTokenSize, Split or                  *)
(* MaxConsecutiveEmptyReads, panics and leaves the scanner as it is once    *)
(* Scan has been called, and succeeds before.                               *)
C11_SettersLocked ==
    [][ (pc = "idle" /\ hist' = hist /\ pc' \in {"idle", "panic"})
            => IF bs.scanCalled
               THEN pc' = "panic" /\ bs' = bs
               ELSE pc' = "idle" ]_vars

(* The split function answered with an advance outside of its window. *)
BadAdvance == asked.called /\ asked.err = nil
              /\ (asked.advance < 0 \/ asked.advance > Len(asked.data))

(* The Scan calls that returned before the first one that answered false. *)
Before(h) == {i \in 1..Len(h) : \A j \in 1..i : h[j].ok}

(* C12: when the split function answers with a negative advance, or with an *)
(* advance beyond its window, Scan answers false with ErrNegativeAdvance,   *)
(* or ErrAdvanceTooFar, the window stays where the split function saw it,   *)
(* and the Scans before it returned their tokens without an error.          *)
C12_AdvanceErrors ==
    BadAdvance =>
        /\ pc \in {"idle", "panic"}
        /\ NumFalse(hist) >= 1
        /\ bs.err = IF asked.advance < 0 THEN ErrNegativeAdvance ELSE ErrAdvanceTooFar
        /\ \A i \in 1..Len(hist) : IF i \in Before(hist)
                                   THEN /\ hist[i].err = nil
                                        /\ hist[i].token.bytes = <<content[Len(content) + 1 - i]>>
                                   ELSE ~hist[i].ok /\ hist[i].err = bs.err
        /\ NumFalse(hist) = 1 => bs.start = asked.start /\ bs.end = asked.end

C12_Witness ==
    /\ BadAdvance
    /\ asked.advance < 0
    /\ asked.start < asked.end
    /\ Len(hist) = 2
    /\ hist[1].ok
    /\ ~hist[2].ok
    /\ bs.err = ErrNegativeAdvance

(* The last ReadAt answered with an error and a count within what was asked. *)
ReadFailed == nreads > 0 /\ last.err # nil /\ 0 <= last.n /\ last.n <= last.plen

(* The split function answered with an error. *)
SplitFailed == asked.called /\ asked.err # nil

(* Scan answered false with the error e, and every Scan since did the same. *)
FailedWith(e) ==
    /\ pc \in {"idle", "panic"}
    /\ bs.err = e
    /\ NumFalse(hist) >= 1
    /\ \A i \in 1..Len(hist) : IF i \in Before(hist) THEN hist[i].err = nil
                               ELSE ~hist[i].ok /\ hist[i].err = e

(* C13: an error of the source's ReadAt that comes with a valid count, and  *)
(* an error of the split function, make the Scan in progress answer false   *)
(* and are what Err() returns from then on, unchanged.                      *)
C13_ErrorsPassThrough ==
    /\ ReadFailed => FailedWith(last.err)
    /\ SplitFailed => FailedWith(asked.err)

C13_Witness ==
    /\ ReadFailed
    /\ last.err = ErrUnexpectedEOF
    /\ Len(hist) = 2
    /\ hist[2].err = ErrUnexpectedEOF
    /\ bs.err = ErrUnexpectedEOF

(* The last ReadAt delivered the last bytes of the source, at least one and  *)
(* no more than asked for, together with io.EOF.                             *)
FinalReadWithEOF ==
    /\ nreads > 0
    /\ last.err = EOF
    /\ 0 < last.n
    /\ last.n <= last.plen
    /\ last.off + last.n = Len(content)

(* C14: a ReadAt that delivers the last bytes of the source together with   *)
(* io.EOF is accepted: Err() stays nil.                                      *)
C14_FinalReadAccepted == FinalReadWithEOF => bs.err = nil

(* The split function asked for more data. *)
AskedForMore == asked.called /\ asked.err = nil /\ asked.advance = 0 /\ asked.token.isNil

(* The split function asked for more over an empty window with the source   *)
(* read up to its start: Scan answered false without a token or an error    *)
(* and the scanner is finished.                                             *)
EmptyWindowEnds ==
    (AskedForMore /\ asked.rOffset = 0 /\ asked.start = asked.end) =>
        /\ pc \in {"idle", "panic"}
        /\ bs.done
        /\ bs.err = nil
        /\ ~hist[Len(hist)].ok
        /\ hist[Len(hist)].token.isNil
        /\ hist[Len(hist)].err = nil

(* C15: with the source exhausted and the window empty when the split       *)
(* function asks for more, Scan answers false without a token, finishes the *)
(* scanner and leaves Err() nil; the first Scan of an empty source answers  *)
(* false with Err() nil.                                                    *)
C15_EmptyWindowAtExhaustion ==
    /\ EmptyWindowEnds
    /\ (r.kind \in WellBehaved /\ Len(content) = 0 /\ hist # <<>>) =>
           ~hist[1].ok /\ hist[1].err = nil

(* C16: after a Scan that answered false, and before the first Scan,        *)
(* Bytes() is empty.                                                        *)
C16_NoTokenAfterFalse ==
    /\ hist = <<>> /\ pc = "idle" => bs.token.bytes = <<>>
    /\ \A i \in 1..Len(hist) : ~hist[i].ok => hist[i].token.bytes = <<>>

(* C17: when a custom split function asks for more over a window that is    *)
(* not empty, with the source read up to its start, Scan answers true once  *)
(* with the whole window as its token, byte for byte, the scanner is        *)
(* finished, and the Scans after it answer false with Err() nil.            *)
C17_FinalTokenAsIs ==
    (bs.split.kind # "ScanLines" /\ AskedForMore /\ asked.rOffset = 0
                                 /\ asked.start < asked.end) =>
        LET k == Len(hist) - NumFalse(hist)
        IN  /\ pc \in {"idle", "panic"}
            /\ bs.done
            /\ bs.err = nil
            /\ k >= 1
            /\ hist[k].ok
            /\ hist[k].token.bytes = asked.data
            /\ \A i \in (k + 1)..Len(hist) : ~hist[i].ok /\ hist[i].err = nil

(* The scanner as the caller configured it, with the buffer NewScanner gave  *)
(* it in place of the caller's.                                             *)
WithDefaultBuffer ==
    LET d == NewScanner(Len(content))
    IN  [first EXCEPT !.buf = d.buf, !.bufSize = d.bufSize, !.start = d.start, !.end = d.end]

(* C18: over a well-behaved source, with the default split function and a   *)
(* maxTokenSize above the size of the source, the Scans of a scanner with a *)
(* caller's buffer of any capacity yield the tokens and the final Err() of  *)
(* the Scans of the scanner with its default buffer.                        *)
C18_BufferIndependent ==
    (pc = "idle" /\ r.kind \in WellBehaved /\ first.split = DefaultSplit
                 /\ first.maxTokenSize > Len(content) /\ NumFalse(hist) = MaxFalse) =>
        LET ref == Run(Machine(WithDefaultBuffer), [kind |-> "full", zeros |-> 0], content)
        IN  /\ Tokens(hist) = Tokens(ref.hist)
            /\ bs.err = ref.bs.err

(* C19: over a well-behaved source, when the split function is about to be  *)
(* called, the window buf[start:end) is the range of the source that starts *)
(* at sourceRemaining and has the window's length.                          *)
C19_WindowIsSourceRange ==
    (pc = "split" /\ r.kind \in WellBehaved /\ InBounds(bs.start, bs.end, Len(bs.buf))) =>
        /\ bs.rOffset + (bs.end - bs.start) <= Len(content)
        /\ Sub(bs.buf, bs.start, bs.end) = Sub(content, bs.rOffset, bs.rOffset + (bs.end - bs.start))

(* C20: a growth of the buffer, taken with the window buf[0:end), leaves    *)
(* the window at the end of the new buffer with its length and its bytes:   *)
(* end' is the new capacity, start' is the new capacity less end, and       *)
(* buf'[start':end') is buf[0:end).                                         *)
C20_GrowthKeepsWindow ==
    [][ (pc = "grow" /\ bs.start = 0 /\ pc' = "loop") =>
            /\ bs'.end = bs'.bufSize
            /\ bs'.start = bs'.bufSize - bs.end
            /\ Sub(bs'.buf, bs'.start, bs'.end) = Sub(bs.buf, 0, bs.end) ]_vars

(* Every line of src, with its line feed, fits in max bytes. *)
LinesFit(src, max) == \A i \in 1..Len(SplitLF(src)) : Len(SplitLF(src)[i]) + 1 <= max

(* C21: over a well-behaved source, with the default split function, a      *)
(* buffer no larger than maxTokenSize to start with, and lines that fit in  *)
(* maxTokenSize with their line feed, no Scan fails with ErrTooLong.        *)
C21_NoSpuriousTooLong ==
    (/\ r.kind \in WellBehaved
     /\ first.split = DefaultSplit
     /\ first.bufSize <= first.maxTokenSize
     /\ LinesFit(content, first.maxTokenSize))
        => bs.err # ErrTooLong

(* C22: ErrNoProgress is raised only after more than                        *)
(* maxConsecutiveEmptyReads reads in a row returned no byte and no error: a *)
(* read that returns a byte starts the count again.                         *)
C22_ConsecutiveEmptyReads == bs.err = ErrNoProgress => last.run > last.limit

(* C23: every ReadAt of a loading step asks for bytes of the source between *)
(* max(R - start, 0) and R, where R is sourceRemaining when the step began: *)
(* bytes that exist and that no earlier step asked for.                     *)
C23_RequestsWithinUnread ==
    pc = "read" =>
        /\ Max(remaining - bs.start, 0) <= off
        /\ off + (bs.start - left) <= remaining

(* The slice Scan is about to take is within its buffer. *)
NextSliceInBounds ==
    LET newSize == Min(IF bs.bufSize = 0 THEN defaultBufSize ELSE 2 * bs.bufSize, bs.maxTokenSize)
        d == Min(bs.bufSize - bs.end, bs.rOffset)
    IN  /\ pc = "read" => InBounds(left, bs.start, Len(bs.buf))
        /\ pc = "split" => InBounds(bs.start, bs.end, Len(bs.buf))
        /\ (pc = "compact" /\ bs.end < bs.bufSize \div 2)
              => InBounds(bs.start + d, bs.end + d, Len(bs.buf))
        /\ (pc = "grow" /\ bs.start = 0 /\ bs.bufSize < bs.maxTokenSize)
              => InBounds(newSize - (bs.end - bs.start), newSize, newSize)

(* C24: in every state 0 <= start <= end <= bufSize, and every slice of the *)
(* buffer that Scan takes, for a read, for the split function, for a        *)
(* compaction or a growth, is within the buffer.                            *)
C24_WindowInBounds ==
    /\ 0 <= bs.start
    /\ bs.start <= bs.end
    /\ bs.end <= bs.bufSize
    /\ NextSliceInBounds

(* C24: Scan returned a token after a growth of the buffer.                  *)
C24_Witness ==
    /\ pc = "idle"
    /\ Len(hist) >= 1
    /\ hist[Len(hist)].ok
    /\ bs.bufSize > first.bufSize
    /\ 0 < bs.end
    /\ bs.end < bs.bufSize

(* The capacities the buffer takes when it grows from the capacity c under  *)
(* the token size max: each is min(2 * the one before, max), with 4096 in   *)
(* place of 2 * 0, and none follows one that is max or more.                *)
RECURSIVE Capacities(_, _)
Capacities(c, max) ==
    IF c >= max THEN {c}
    ELSE {c} \cup Capacities(Min(IF c = 0 THEN defaultBufSize ELSE 2 * c, max), max)

(* C25: the capacity of the buffer is one that growth by                    *)
(* min(2 * capacity, maxTokenSize) reaches from the initial one, it is at   *)
(* most max(initial capacity, maxTokenSize), and ErrTooLong stands for a    *)
(* growth refused at a capacity of maxTokenSize or more: a pass of the loop *)
(* that asked for more and goes on has made space before start.             *)
C25_GrowthBounded ==
    /\ bs.bufSize \in Capacities(first.bufSize, first.maxTokenSize)
    /\ bs.bufSize <= Max(first.bufSize, first.maxTokenSize)
    /\ bs.err = ErrTooLong => bs.bufSize >= bs.maxTokenSize
    /\ (pc = "loop" /\ AskedForMore) => bs.start > 0
    /\ bs.scanCalled => bs.maxTokenSize = first.maxTokenSize

(* C25: the buffer grew up to maxTokenSize and the next growth was refused. *)
C25_Witness ==
    /\ first.bufSize < first.maxTokenSize
    /\ bs.bufSize > first.bufSize
    /\ bs.bufSize = first.maxTokenSize
    /\ bs.err = ErrTooLong
    /\ Len(content) > bs.bufSize

(* The window the split function saw is one the compaction moves. *)
Compactable == asked.end < asked.bufSize \div 2

(* The distance of the compaction of the window the split function saw. *)
Shift == Min(asked.bufSize - asked.end, asked.rOffset)

(* C26: the compaction comes after the split function asked for more with   *)
(* sourceRemaining > 0, and is made exactly when end < bufSize/2.  It moves *)
(* the window to the right by d = min(bufSize - end, sourceRemaining), with *)
(* d >= 1, and leaves the bytes and the length of the window, the capacity, *)
(* the buffer and sourceRemaining as they were; the pass of the loop that   *)
(* compacted does not grow the buffer.                                      *)
C26_Compaction ==
    /\ pc \in {"compact", "grow"} => AskedForMore /\ asked.rOffset > 0
    /\ pc = "compact" =>
           /\ bs.start = asked.start
           /\ bs.end = asked.end
           /\ bs.bufSize = asked.bufSize
    /\ pc = "grow" =>
           /\ bs.bufSize = asked.bufSize
           /\ Len(bs.buf) = asked.bufSize
           /\ bs.rOffset = asked.rOffset
           /\ IF Compactable
              THEN /\ Shift >= 1
                   /\ bs.start = asked.start + Shift
                   /\ bs.end = asked.end + Shift
                   /\ Sub(bs.buf, bs.start, bs.end) = asked.data
              ELSE /\ bs.start = asked.start
                   /\ bs.end = asked.end
    /\ (pc = "loop" /\ AskedForMore) =>
           IF Compactable
           THEN bs.bufSize = asked.bufSize /\ bs.start = asked.start + Shift
           ELSE bs.bufSize > asked.bufSize

(* C26: a window that is not empty has been compacted. *)
C26_Witness ==
    /\ pc = "grow"
    /\ Compactable
    /\ asked.start < asked.end
    /\ bs.start > asked.start
    /\ Sub(bs.buf, bs.start, bs.end) = asked.data

(* A pass of the Scan loop is over and the loop goes on: the split function *)
(* asked for more and Scan did not return.                                  *)
PassOver == pc = "loop" /\ AskedForMore

(* The pass that is over read from the source or enlarged the buffer. *)
PassProgressed == bs.rOffset < pass.rOffset \/ bs.bufSize > pass.bufSize

(* C27, as stated: every pass of the Scan loop that does not return         *)
(* decreases sourceRemaining or increases the capacity of the buffer.       *)
C27_EveryPassProgresses == PassOver => PassProgressed

(* A pass that is over without having read or enlarged the buffer has       *)
(* compacted the window: there is space before start and source to load.    *)
PassCompacted ==
    /\ bs.start > 0
    /\ bs.rOffset > 0
    /\ bs.bufSize = pass.bufSize
    /\ bs.rOffset = pass.rOffset

(* A loading step lowers sourceRemaining, unless nothing of the source was  *)
(* left when it began.                                                      *)
LoadDecreases == pc = "read" => (bs.rOffset < remaining \/ remaining = 0)

(* The passes a Scan call can make: one for each byte of the source it      *)
(* loads, one for each capacity the buffer can grow to, one compaction      *)
(* before each load, and the pass that returns.                             *)
PassBound ==
    2 * Len(content) + Cardinality(Capacities(first.bufSize, first.maxTokenSize)) + 1

(* The successful Scans the default split function allows: each takes at    *)
(* least one byte off the window, whose bytes are those loaded from the     *)
(* source and those of the buffers allocated.                               *)
CallBound == (Len(content) + 1) * (Max(first.bufSize, Len(content)) + 1)

(* C27: over a well-behaved source, whatever the split function, a pass of  *)
(* the Scan loop returns, or decreases sourceRemaining, or increases the    *)
(* capacity of the buffer, or compacts the window, and then the pass after  *)
(* it decreases sourceRemaining; a read loop goes on only while bytes are   *)
(* missing; so every Scan call returns, within PassBound passes; with the   *)
(* default split function at most CallBound Scans succeed before one        *)
(* answers false.                                                           *)
C27_Termination ==
    r.kind \in WellBehaved =>
        /\ PassOver => PassProgressed \/ PassCompacted
        /\ LoadDecreases
        /\ pc = "read" => left < bs.start
        /\ pass.n <= PassBound
        /\ pass.n < PassCap
        /\ bs.split = DefaultSplit => Len(Tokens(hist)) <= CallBound

(* C27: a pass of a second Scan call is over that only compacted the window. *)
C27_Witness ==
    /\ r.kind \in WellBehaved
    /\ PassOver
    /\ PassCompacted
    /\ ~PassProgressed
    /\ pass.n >= 1
    /\ Len(hist) >= 1

====
